---------------------------- MODULE Spec2Model ----------------------------
(***************************************************************************)
(* A model of the maritime job widget: the CSV extractors of its source    *)
(* variants, the one-hour localStorage cache in front of them, and the     *)
(* load / render / refresh cycle of a widget instance.                     *)
(*                                                                         *)
(* The source holds five variants of class MaritimeJobWidget:              *)
(*   "A"  src/maritime-widget.js lines 7-327    (rows 2, 7, 13-22, 25-29)  *)
(*   "B"  src/maritime-widget.js lines 335-677  (parseCSV, no cache)       *)
(*   "C"  src/maritime-widget.js lines 685-1022 (Summary/Section markers)  *)
(*   "D"  src/unnamed/part_000   (rows 3, 10, 18-27, 53-62, 67-76)         *)
(*   "E"  src/unnamed/part_001   (header markers, showLocations caps)      *)
(*                                                                         *)
(* JavaScript strings are sequences of characters.  A character is a       *)
(* one-symbol TLA+ string; a symbol of several letters ("Port Engineer")   *)
(* stands for a run of characters none of which is a quote, a comma, a     *)
(* digit, a minus sign or white space at either end: the code never looks  *)
(* inside such a run except to compare it with a constant.                 *)
(***************************************************************************)
EXTENDS Integers, Sequences, FiniteSets, TLC

(***************************************************************************)
(* JavaScript values.                                                      *)
(***************************************************************************)
Undefined == [t |-> "undefined"]
Null == [t |-> "null"]
NaN == [t |-> "NaN"]
Num(n) == [t |-> "num", n |-> n]
Str(s) == [t |-> "str", s |-> s]
Arr(a) == [t |-> "arr", a |-> a]
Obj(o) == [t |-> "obj", o |-> o]
EmptyObj == Obj(<<>>)

\* ToBoolean: what `if (v)`, `!v`, `v || w` and `v && w` look at.
Truthy(v) ==
    CASE v.t = "undefined" -> FALSE
      [] v.t = "null" -> FALSE
      [] v.t = "NaN" -> FALSE
      [] v.t = "num" -> v.n # 0
      [] v.t = "str" -> v.s # <<>>
      [] OTHER -> TRUE

\* v.key : a read of a property.  Reading a property of undefined or null
\* throws a TypeError (Throws below); of a number or string it gives
\* undefined for the keys used here.
Get(v, key) ==
    IF v.t = "obj" /\ key \in DOMAIN v.o THEN v.o[key] ELSE Undefined

Throws(v) == v.t \in {"undefined", "null"}

\* obj.key = val
Set(obj, key, val) == Obj((key :> val) @@ obj.o)

\* arr.push(val)
Push(arr, val) == Arr(Append(arr.a, val))

(***************************************************************************)
(* Strings.                                                                *)
(***************************************************************************)
Digits == <<"0", "1", "2", "3", "4", "5", "6", "7", "8", "9">>

IsDigit(ch) == \E d \in 1..10 : Digits[d] = ch

DigitVal(ch) == (CHOOSE d \in 1..10 : Digits[d] = ch) - 1

IsSpace(ch) == ch = " "

RECURSIVE TrimLeft(_)
TrimLeft(s) ==
    IF s # <<>> /\ IsSpace(s[1]) THEN TrimLeft(Tail(s)) ELSE s

RECURSIVE TrimRight(_)
TrimRight(s) ==
    IF s # <<>> /\ IsSpace(s[Len(s)])
    THEN TrimRight(SubSeq(s, 1, Len(s) - 1))
    ELSE s

\* String.prototype.trim
Trim(s) == TrimRight(TrimLeft(s))

\* s.replace(/<ch>/g, '')
RemoveAll(s, ch) == SelectSeq(s, LAMBDA c : c # ch)

\* s.includes(word), for a word that is one symbol of the alphabet
Includes(s, word) == \E i \in 1..Len(s) : s[i] = word

RECURSIVE DigitPrefix(_)
DigitPrefix(s) ==
    IF s # <<>> /\ IsDigit(s[1])
    THEN <<s[1]>> \o DigitPrefix(Tail(s))
    ELSE <<>>

RECURSIVE DecimalValue(_)
DecimalValue(ds) ==
    IF ds = <<>> THEN 0
    ELSE 10 * DecimalValue(SubSeq(ds, 1, Len(ds) - 1)) + DigitVal(ds[Len(ds)])

\* parseInt(v) without a radix: the argument is turned into a string
\* (undefined becomes the text "undefined"), leading white space and one
\* minus sign are skipped, and the longest prefix of digits is the number;
\* no digit there gives NaN.
ParseIntStr(s) ==
    LET t == TrimLeft(s)
        neg == t # <<>> /\ t[1] = "-"
        ds == DigitPrefix(IF neg THEN Tail(t) ELSE t)
    IN  IF ds = <<>> THEN NaN
        ELSE Num(IF neg THEN 0 - DecimalValue(ds) ELSE DecimalValue(ds))

parseInt(v) == IF v.t = "str" THEN ParseIntStr(v.s) ELSE NaN

\* isNaN(s) of a string: Number(s) is NaN unless the whole trimmed string is
\* an optionally signed run of digits (the empty string is 0).
isNaN(s) ==
    LET t == Trim(s)
        body == IF t # <<>> /\ t[1] = "-" THEN Tail(t) ELSE t
    IN  ~ (t = <<>> \/ (body # <<>> /\ DigitPrefix(body) = body))

\* v || 0
OrZero(v) == IF Truthy(v) THEN v ELSE Num(0)

\* v || ''
OrEmpty(v) == IF Truthy(v) THEN v ELSE Str(<<>>)

(***************************************************************************)
(* parseCSVLine: the line tokenizer, the same in every variant.            *)
(***************************************************************************)
RECURSIVE ScanLine(_, _, _, _, _)
ScanLine(line, i, cells, current, inQuotes) ==
    IF i > Len(line) THEN Append(cells, Trim(current))
    ELSE IF line[i] = "\"" THEN ScanLine(line, i + 1, cells, current, ~inQuotes)
    ELSE IF line[i] = "," /\ ~inQuotes
         THEN ScanLine(line, i + 1, Append(cells, Trim(current)), <<>>, inQuotes)
    ELSE ScanLine(line, i + 1, cells, Append(current, line[i]), inQuotes)

\* a tokenizer that forgets the cell it is building at the end of the line
parseCSVLineNoFlush(line) ==
    LET cells == ScanLine(line, 1, <<>>, <<>>, FALSE)
    IN  SubSeq(cells, 1, Len(cells) - 1)

parseCSVLine(line) == ScanLine(line, 1, <<>>, <<>>, FALSE)

\* a tokenizer whose inside-quotes state is kept from line to line
TokenizeCarryingQuotes(lines) ==
    [i \in 1..Len(lines) |->
        LET before == UNION { { <<j, k>> : k \in { c \in 1..Len(lines[j]) :
                                                      lines[j][c] = "\"" } } :
                              j \in 1..(i - 1) }
        IN  ScanLine(lines[i], 1, <<>>, <<>>, Cardinality(before) % 2 = 1)]

\* parseCSVLine(line) for every line of the text
Tokenize(lines) == [i \in 1..Len(lines) |-> parseCSVLine(lines[i])]

\* cells[k] (k counted from 0): undefined past the end of the array
Cell(cells, k) == IF k + 1 <= Len(cells) THEN Str(cells[k + 1]) ELSE Undefined

(***************************************************************************)
(* A CSV text is the sequence of its lines, csvText.split('\n'): never     *)
(* empty, the empty text being one empty line.                             *)
(***************************************************************************)
IsBlank(line) == Trim(line) = <<>>

RECURSIVE DropBlankHead(_)
DropBlankHead(lines) ==
    IF lines # <<>> /\ IsBlank(lines[1]) THEN DropBlankHead(Tail(lines)) ELSE lines

RECURSIVE DropBlankTail(_)
DropBlankTail(lines) ==
    IF lines # <<>> /\ IsBlank(lines[Len(lines)])
    THEN DropBlankTail(SubSeq(lines, 1, Len(lines) - 1))
    ELSE lines

\* csvText.trim().split('\n'): white space, line breaks included, goes from
\* both ends of the text.
TrimText(lines) ==
    LET kept == DropBlankTail(DropBlankHead(lines))
    IN  IF kept = <<>> THEN << <<>> >>
        ELSE [i \in 1..Len(kept) |->
                LET l1 == IF i = 1 THEN TrimLeft(kept[i]) ELSE kept[i]
                IN  IF i = Len(kept) THEN TrimRight(l1) ELSE l1]

\* data.summary.<key> = val
SetSummary(data, key, val) ==
    Set(data, "summary", Set(Get(data, "summary"), key, val))

\* data.<list>.push(entry)
PushTo(data, list, entry) == Set(data, list, Push(Get(data, list), entry))

\* data.<list>.length
LengthOf(data, list) == Len(Get(data, list).a)

\* cells[k].replace(/,/g, '').replace(/"/g, '')
Unformat(s) == RemoveAll(RemoveAll(s, ","), "\"")

(***************************************************************************)
(* Variant D: parseCSVData of src/unnamed/part_000, fixed rows and columns. *)
(***************************************************************************)
EmptyReportD ==
    Obj([summary |-> EmptyObj, jobTitles |-> Arr(<<>>),
         companies |-> Arr(<<>>), cities |-> Arr(<<>>)])

\* the total read from column B instead of column C
TotalJobsDColumnB(data, rowNumber, cells) ==
    IF rowNumber = 3 /\ Len(cells) >= 2
    THEN LET value == Trim(Unformat(cells[2]))
         IN  IF value # <<>> /\ ~isNaN(value)
             THEN SetSummary(data, "totalJobs", OrZero(ParseIntStr(value)))
             ELSE data
    ELSE data

\* Row 3 = Total Active Jobs in column C
TotalJobsD(data, rowNumber, cells) ==
    IF rowNumber = 3 /\ Len(cells) >= 3
    THEN LET value == Trim(Unformat(cells[3]))
         IN  IF value # <<>> /\ ~isNaN(value)
             THEN SetSummary(data, "totalJobs", OrZero(ParseIntStr(value)))
             ELSE data
    ELSE data

\* Row 10 = California jobs in column B
CaliforniaJobsD(data, rowNumber, cells) ==
    IF rowNumber = 10 /\ Len(cells) >= 2
    THEN LET value == Trim(Unformat(cells[2]))
         IN  IF value # <<>> /\ ~isNaN(value)
             THEN SetSummary(data, "californiaJobs", OrZero(ParseIntStr(value)))
             ELSE data
    ELSE data

\* the cities block read through row 53, the first row of the job titles
CitiesDThroughRow53(data, rowNumber, cells) ==
    IF rowNumber >= 18 /\ rowNumber <= 53 /\ Len(cells) >= 2
    THEN LET city == Trim(RemoveAll(cells[1], "\""))
             count == OrZero(ParseIntStr(Unformat(cells[2])))
         IN  IF city # <<>> /\ city # <<"City">> /\ count.n > 0
             THEN PushTo(data, "cities", Obj([city |-> Str(city), count |-> count]))
             ELSE data
    ELSE data

\* Rows 18-27 = California cities
CitiesD(data, rowNumber, cells) ==
    IF rowNumber >= 18 /\ rowNumber <= 27 /\ Len(cells) >= 2
    THEN LET city == Trim(RemoveAll(cells[1], "\""))
             count == OrZero(ParseIntStr(Unformat(cells[2])))
         IN  IF city # <<>> /\ city # <<"City">> /\ count.n > 0
             THEN PushTo(data, "cities", Obj([city |-> Str(city), count |-> count]))
             ELSE data
    ELSE data

\* Rows 53-62 = Job titles with pay ranges
JobTitlesD(data, rowNumber, cells) ==
    IF rowNumber >= 53 /\ rowNumber <= 62 /\ Len(cells) >= 2
    THEN LET jobTitle == Trim(RemoveAll(cells[1], "\""))
             openings == OrZero(ParseIntStr(Unformat(cells[2])))
             payRange == IF Len(cells) >= 3
                         THEN Trim(RemoveAll(cells[3], "\""))
                         ELSE <<>>
         IN  IF jobTitle # <<>> /\ jobTitle # <<"Job Title">>
             THEN PushTo(data, "jobTitles",
                         Obj([title |-> Str(jobTitle), openings |-> openings,
                              payRange |-> Str(payRange)]))
             ELSE data
    ELSE data

\* Rows 67-76 = Top 10 companies
CompaniesD(data, rowNumber, cells) ==
    IF rowNumber >= 67 /\ rowNumber <= 76 /\ Len(cells) >= 2
    THEN LET company == Trim(RemoveAll(cells[1], "\""))
             count == OrZero(ParseIntStr(Unformat(cells[2])))
         IN  IF company # <<>> /\ company # <<"Company Name">> /\ count.n > 0
             THEN PushTo(data, "companies",
                         Obj([company |-> Str(company), count |-> count]))
             ELSE data
    ELSE data

\* the loop body without the cells.length test of row 3: cells[2].replace
\* on a missing cell is a TypeError, which ends the extraction
RowDUnguarded(data, rowNumber, rawLine) ==
    LET line == Trim(rawLine)
        cells == parseCSVLine(line)
    IN  IF line = <<>> THEN data
        ELSE IF rowNumber = 3 /\ Len(cells) < 3 THEN [t |-> "thrown"]
        ELSE CompaniesD(JobTitlesD(CitiesD(CaliforniaJobsD(
                 TotalJobsD(data, rowNumber, cells),
                 rowNumber, cells), rowNumber, cells), rowNumber, cells),
                 rowNumber, cells)

\* The body of the for loop at row i (rowNumber = i, lines counted from 1).
RowD(data, rowNumber, rawLine) ==
    LET line == Trim(rawLine)
        cells == parseCSVLine(line)
    IN  IF line = <<>> THEN data
        ELSE CompaniesD(JobTitlesD(CitiesD(CaliforniaJobsD(
                 TotalJobsD(data, rowNumber, cells),
                 rowNumber, cells), rowNumber, cells), rowNumber, cells),
                 rowNumber, cells)

\* for (let i = 0; i < lines.length; i++): rows lo..hi in order, row after
\* row.  The range is halved, and the left half evaluated first, only to
\* keep the depth of the evaluation logarithmic in the number of lines.
RECURSIVE LoopD(_, _, _, _)
LoopD(lines, lo, hi, data) ==
    IF lo > hi THEN data
    ELSE IF lo = hi THEN RowD(data, lo, lines[lo])
    ELSE LET mid == (lo + hi) \div 2
             left == LoopD(lines, lo, mid, data)
         IN  IF left.t = "obj" THEN LoopD(lines, mid + 1, hi, left) ELSE left

parseCSVData_D(lines) == LoopD(lines, 1, Len(lines), EmptyReportD)

(***************************************************************************)
(* Variant C: parseCSVData of src/maritime-widget.js lines 762-840, rows   *)
(* tagged in column A, sections opened by "Section" rows.                  *)
(***************************************************************************)
EmptyReportC ==
    Obj([totalJobs |-> Num(0), californiaJobs |-> Num(0),
         lastUpdated |-> Str(<<>>), topCities |-> Arr(<<>>),
         topJobs |-> Arr(<<>>), topCompanies |-> Arr(<<>>)])

\* Parse Summary section
SummaryRowC(data, metric, value) ==
    IF metric = Str(<<"Total Active Job Openings">>)
    THEN Set(data, "totalJobs", OrZero(parseInt(value)))
    ELSE IF metric = Str(<<"Job Openings in California">>)
    THEN Set(data, "californiaJobs", OrZero(parseInt(value)))
    ELSE IF metric = Str(<<"Last Updated">>)
    THEN Set(data, "lastUpdated", value)
    ELSE data

\* Identify section headers
SectionRowC(currentSection, metric) ==
    IF metric = Str(<<"City">>) THEN "cities"
    ELSE IF metric = Str(<<"Job Title">>) THEN "jobs"
    ELSE IF metric = Str(<<"Company Name">>) THEN "companies"
    ELSE currentSection

\* Parse data rows based on current section
DataRowC(data, currentSection, cells, showTopItems) ==
    LET section == Cell(cells, 0)
        metric == Cell(cells, 1)
        count == OrZero(parseInt(Cell(cells, 2)))
    IN  IF currentSection = "cities" /\ section = Str(<<"CA Cities">>)
        THEN IF LengthOf(data, "topCities") < showTopItems
             THEN PushTo(data, "topCities", Obj([name |-> metric, count |-> count]))
             ELSE data
        ELSE IF currentSection = "jobs" /\ section = Str(<<"Top Jobs">>)
        THEN IF LengthOf(data, "topJobs") < showTopItems
             THEN PushTo(data, "topJobs",
                         Obj([title |-> metric, count |-> count,
                              payRange |-> OrEmpty(Cell(cells, 3))]))
             ELSE data
        ELSE IF currentSection = "companies" /\ section = Str(<<"Top Companies">>)
        THEN IF LengthOf(data, "topCompanies") < showTopItems
             THEN PushTo(data, "topCompanies", Obj([name |-> metric, count |-> count]))
             ELSE data
        ELSE data

\* The body of the for loop: st = [data, currentSection].
RowC(st, line, showTopItems) ==
    LET cells == parseCSVLine(line)
        section == Cell(cells, 0)
        metric == Cell(cells, 1)
        value == Cell(cells, 2)
    IN  IF \A k \in 1..Len(cells) : cells[k] = <<>> THEN st
        ELSE IF section = Str(<<"Summary">>)
        THEN [st EXCEPT !.data = SummaryRowC(st.data, metric, value)]
        ELSE IF section = Str(<<"Section">>)
        THEN [st EXCEPT !.currentSection = SectionRowC(st.currentSection, metric)]
        ELSE [st EXCEPT !.data =
                 DataRowC(st.data, st.currentSection, cells, showTopItems)]

RECURSIVE LoopC(_, _, _, _)
LoopC(lines, i, st, showTopItems) ==
    IF i > Len(lines) THEN st.data
    ELSE LoopC(lines, i + 1, RowC(st, lines[i], showTopItems), showTopItems)

parseCSVData_C(lines, showTopItems) ==
    LoopC(TrimText(lines), 1,
          [data |-> EmptyReportC, currentSection |-> "null"], showTopItems)

(***************************************************************************)
(* Variant A: parseCSVData of src/maritime-widget.js lines 118-184, fixed  *)
(* rows 2, 7, 13-22 and 25-29.                                             *)
(***************************************************************************)
EmptyReportA ==
    Obj([summary |-> EmptyObj, jobTitles |-> Arr(<<>>),
         companies |-> Arr(<<>>), lastUpdated |-> Null])

\* Row 2 = Total Active Jobs in column B (index 1)
TotalJobsA(data, rowNumber, cells) ==
    IF rowNumber = 2 /\ Len(cells) >= 2
    THEN LET value == Trim(RemoveAll(cells[2], ","))
         IN  IF value # <<>> /\ ~isNaN(value)
             THEN SetSummary(data, "totalJobs", OrZero(ParseIntStr(value)))
             ELSE data
    ELSE data

\* Row 7 = California in column B (index 1)
CaliforniaJobsA(data, rowNumber, cells) ==
    IF rowNumber = 7 /\ Len(cells) >= 2
    THEN LET value == Trim(RemoveAll(cells[2], ","))
         IN  IF value # <<>> /\ ~isNaN(value)
             THEN SetSummary(data, "californiaJobs", OrZero(ParseIntStr(value)))
             ELSE data
    ELSE data

\* Rows 13-22 = Job titles in column A, counts in column B
JobTitlesA(data, rowNumber, cells) ==
    IF rowNumber >= 13 /\ rowNumber <= 22 /\ Len(cells) >= 2
    THEN LET jobTitle == Trim(cells[1])
             count == OrZero(ParseIntStr(RemoveAll(cells[2], ",")))
         IN  IF jobTitle # <<>> /\ jobTitle # <<"Job Title">> /\ count.n > 0
             THEN PushTo(data, "jobTitles",
                         Obj([title |-> Str(jobTitle), count |-> count]))
             ELSE data
    ELSE data

\* Rows 25-29 = Companies in column A, counts in column B
CompaniesA(data, rowNumber, cells) ==
    IF rowNumber >= 25 /\ rowNumber <= 29 /\ Len(cells) >= 2
    THEN LET company == Trim(cells[1])
             count == OrZero(ParseIntStr(RemoveAll(cells[2], ",")))
         IN  IF company # <<>> /\ company # <<"Company Name">> /\ count.n > 0
             THEN PushTo(data, "companies",
                         Obj([company |-> Str(company), count |-> count]))
             ELSE data
    ELSE data

RowA(data, rowNumber, rawLine) ==
    LET line == Trim(rawLine)
        cells == parseCSVLine(line)
    IN  IF line = <<>> THEN data
        ELSE CompaniesA(JobTitlesA(CaliforniaJobsA(
                 TotalJobsA(data, rowNumber, cells),
                 rowNumber, cells), rowNumber, cells), rowNumber, cells)

\* The for loop, as LoopD.
RECURSIVE LoopA(_, _, _, _)
LoopA(lines, lo, hi, data) ==
    IF lo > hi THEN data
    ELSE IF lo = hi THEN RowA(data, lo, lines[lo])
    ELSE LET mid == (lo + hi) \div 2
             left == LoopA(lines, lo, mid, data)
         IN  IF left.t = "obj" THEN LoopA(lines, mid + 1, hi, left) ELSE left

parseCSVData_A(lines) == LoopA(lines, 1, Len(lines), EmptyReportA)

(***************************************************************************)
(* Variant B: parseCSV of src/maritime-widget.js lines 427-554.  Every     *)
(* line is tokenized first; fields are read by line index (from 0).        *)
(***************************************************************************)
\* lines[i][k] of the tokenized lines, i and k counted from 0 (the code
\* reads only lines it has checked to exist)
At(rows, i, k) == Cell(rows[i + 1], k)

EmptyReportB ==
    Obj([summary |-> EmptyObj, jobsByState |-> EmptyObj,
         californiaJobs |-> EmptyObj, caCities |-> Arr(<<>>),
         topJobTitles |-> Arr(<<>>), topCompanies |-> Arr(<<>>)])

\* Parse SUMMARY section (lines 3-5, 0-indexed: 2-4)
SummaryB(data, rows) ==
    IF Len(rows) > 4
    THEN Set(data, "summary",
             Obj([totalJobs |-> OrZero(parseInt(At(rows, 2, 1))),
                  weeklyChange |-> OrZero(parseInt(At(rows, 3, 1))),
                  lastUpdated |-> IF Truthy(At(rows, 4, 1)) THEN At(rows, 4, 1)
                                  ELSE Str(<<"Unknown">>)]))
    ELSE data

\* Parse JOBS BY STATE section (lines 10-13, 0-indexed: 9-12)
JobsByStateB(data, rows) ==
    IF Len(rows) > 13
    THEN LET california == OrZero(parseInt(At(rows, 9, 1)))
         IN  Set(Set(data, "jobsByState",
                     Obj([california |-> california,
                          washington |-> OrZero(parseInt(At(rows, 10, 1))),
                          oregon |-> OrZero(parseInt(At(rows, 11, 1))),
                          otherStates |-> OrZero(parseInt(At(rows, 12, 1)))])),
                 "californiaJobs", Obj([total |-> california]))
    ELSE data

\* Parse CALIFORNIA JOBS BY CITY section (starts at line 18, 0-indexed: 17),
\* up to the first line whose first cell is empty
RECURSIVE CitiesB(_, _, _)
CitiesB(data, rows, i) ==
    IF ~(i < Len(rows)) THEN data
    ELSE IF ~Truthy(At(rows, i, 0)) \/ Trim(At(rows, i, 0).s) = <<>> THEN data
    ELSE LET city == At(rows, i, 0)
             count == OrZero(parseInt(At(rows, i, 1)))
             next == IF city # Str(<<"City">>) /\ count.n > 0
                     THEN PushTo(data, "caCities", Obj([city |-> city, count |-> count]))
                     ELSE data
         IN  IF next.t = "obj" THEN CitiesB(next, rows, i + 1) ELSE next

\* Parse TOP 10 JOB TITLES section (starts at line 53, 0-indexed: 52)
RECURSIVE JobTitlesB(_, _, _)
JobTitlesB(data, rows, i) ==
    IF ~(i < 52 + 10 /\ i < Len(rows)) THEN data
    ELSE LET title == At(rows, i, 0)
             count == OrZero(parseInt(At(rows, i, 1)))
             payRange == IF Truthy(At(rows, i, 2)) THEN At(rows, i, 2)
                         ELSE Str(<<"Not Specified">>)
             next == IF Truthy(title) /\ title # Str(<<"Job Title">>)
                        /\ Trim(title.s) # <<>>
                     THEN PushTo(data, "topJobTitles",
                                 Obj([title |-> title, count |-> count,
                                      payRange |-> payRange]))
                     ELSE data
         IN  IF next.t = "obj" THEN JobTitlesB(next, rows, i + 1) ELSE next

\* Parse TOP 10 HIRING COMPANIES section (starts at line 67, 0-indexed: 66)
RECURSIVE CompaniesB(_, _, _)
CompaniesB(data, rows, i) ==
    IF ~(i < 66 + 10 /\ i < Len(rows)) THEN data
    ELSE LET company == At(rows, i, 0)
             count == OrZero(parseInt(At(rows, i, 1)))
             next == IF Truthy(company) /\ company # Str(<<"Company Name">>)
                        /\ Trim(company.s) # <<>>
                     THEN PushTo(data, "topCompanies",
                                 Obj([company |-> company, count |-> count]))
                     ELSE data
         IN  IF next.t = "obj" THEN CompaniesB(next, rows, i + 1) ELSE next

parseCSV_B(lines) ==
    LET rows == [i \in 1..Len(lines) |-> parseCSVLine(lines[i])]
    IN  CompaniesB(JobTitlesB(CitiesB(JobsByStateB(SummaryB(EmptyReportB, rows),
                   rows), rows, 17), rows, 52), rows, 66)

(***************************************************************************)
(* Variant E: parseCSVData of src/unnamed/part_001 lines 118-181, sections *)
(* opened by title lines, the line after a title skipped as header row.    *)
(***************************************************************************)
EmptyReportE ==
    Obj([summary |-> EmptyObj, locations |-> Arr(<<>>), jobTitles |-> Arr(<<>>),
         companies |-> Arr(<<>>), lastUpdated |-> Null])

\* String.prototype.toLowerCase, on the symbols the summary labels use
LowerSymbol(ch) ==
    CASE ch = "Total Active Jobs" -> "total active jobs"
      [] ch = "Bay Area Jobs" -> "bay area jobs"
      [] ch = "Last Updated" -> "last updated"
      [] OTHER -> ch

toLowerCase(s) == [i \in 1..Len(s) |-> LowerSymbol(s[i])]

SummaryRowE(data, cells) ==
    LET label == toLowerCase(cells[1])
    IN  IF Includes(label, "total active jobs")
        THEN SetSummary(data, "totalJobs",
                        OrZero(ParseIntStr(RemoveAll(cells[2], ","))))
        ELSE IF Includes(label, "bay area jobs")
        THEN SetSummary(data, "bayAreaJobs",
                        OrZero(ParseIntStr(RemoveAll(cells[2], ","))))
        ELSE IF Includes(label, "last updated")
        THEN Set(data, "lastUpdated", Str(cells[2]))
        ELSE data

LocationRowE(data, cells, showLocations) ==
    LET location == cells[1]
        count == OrZero(ParseIntStr(RemoveAll(cells[2], ",")))
    IN  IF location # <<>> /\ count.n > 0
           /\ LengthOf(data, "locations") < showLocations
        THEN PushTo(data, "locations",
                    Obj([location |-> Str(location), count |-> count]))
        ELSE data

CompanyRowE(data, cells, showCompanies) ==
    LET company == cells[1]
        count == OrZero(ParseIntStr(RemoveAll(cells[2], ",")))
    IN  IF company # <<>> /\ count.n > 0
           /\ LengthOf(data, "companies") < showCompanies
        THEN PushTo(data, "companies",
                    Obj([company |-> Str(company), count |-> count]))
        ELSE data

\* Parse data based on current section
DataRowE(data, currentSection, cells, showLocations, showCompanies) ==
    IF currentSection = "summary" /\ Len(cells) >= 2
    THEN SummaryRowE(data, cells)
    ELSE IF currentSection = "locations" /\ Len(cells) >= 2
    THEN LocationRowE(data, cells, showLocations)
    ELSE IF currentSection = "companies" /\ Len(cells) >= 2
    THEN CompanyRowE(data, cells, showCompanies)
    ELSE data

\* the for loop without the i++ after a locations title
RowENoSkip(st, rawLine, showLocations, showCompanies) ==
    LET line == Trim(rawLine)
        cells == parseCSVLine(line)
    IN  IF line = <<>> THEN [st EXCEPT !.i = @ + 1]
        ELSE IF Includes(line, "MARITIME JOB MARKET SUMMARY")
        THEN [st EXCEPT !.i = @ + 1, !.currentSection = "summary"]
        ELSE IF Includes(line, "JOB DISTRIBUTION BY LOCATION")
        THEN [st EXCEPT !.i = @ + 1, !.currentSection = "locations"]
        ELSE IF Includes(line, "TOP SKILLS")
        THEN [st EXCEPT !.i = @ + 2, !.currentSection = "skills"]
        ELSE IF Includes(line, "HIRING COMPANIES")
        THEN [st EXCEPT !.i = @ + 2, !.currentSection = "companies"]
        ELSE [st EXCEPT !.i = @ + 1,
                        !.data = DataRowE(st.data, st.currentSection, cells,
                                          showLocations, showCompanies)]

\* One pass of the for loop at index i (from 1): st = [i, data,
\* currentSection]; the result carries the index of the next pass.
RowE(st, rawLine, showLocations, showCompanies) ==
    LET line == Trim(rawLine)
        cells == parseCSVLine(line)
    IN  IF line = <<>> THEN [st EXCEPT !.i = @ + 1]
        ELSE IF Includes(line, "MARITIME JOB MARKET SUMMARY")
        THEN [st EXCEPT !.i = @ + 1, !.currentSection = "summary"]
        ELSE IF Includes(line, "JOB DISTRIBUTION BY LOCATION")
        THEN [st EXCEPT !.i = @ + 2, !.currentSection = "locations"]
        ELSE IF Includes(line, "TOP SKILLS")
        THEN [st EXCEPT !.i = @ + 2, !.currentSection = "skills"]
        ELSE IF Includes(line, "HIRING COMPANIES")
        THEN [st EXCEPT !.i = @ + 2, !.currentSection = "companies"]
        ELSE [st EXCEPT !.i = @ + 1,
                        !.data = DataRowE(st.data, st.currentSection, cells,
                                          showLocations, showCompanies)]

RECURSIVE LoopE(_, _, _, _)
LoopE(lines, st, showLocations, showCompanies) ==
    IF st.i > Len(lines) THEN st.data
    ELSE LoopE(lines, RowE(st, lines[st.i], showLocations, showCompanies),
               showLocations, showCompanies)

parseCSVData_E(lines, showLocations, showCompanies) ==
    LoopE(lines, [i |-> 1, data |-> EmptyReportE, currentSection |-> "null"],
          showLocations, showCompanies)

(***************************************************************************)
(* The extractor of a variant under its constructor options.               *)
(***************************************************************************)
Variants == {"A", "B", "C", "D", "E"}

\* this.options of a widget constructed without options
DefaultOptions(variant) ==
    CASE variant = "A" -> [showLocations |-> 5, showJobTitles |-> 10, showCompanies |-> 5]
      [] variant = "B" -> [showTopN |-> 10]
      [] variant = "C" -> [showTopItems |-> 10]
      [] variant = "D" -> <<>>
      [] variant = "E" -> [showLocations |-> 5, showJobTitles |-> 10, showCompanies |-> 5]

Extract(variant, options, lines) ==
    CASE variant = "A" -> parseCSVData_A(lines)
      [] variant = "B" -> parseCSV_B(lines)
      [] variant = "C" -> parseCSVData_C(lines, options.showTopItems)
      [] variant = "D" -> parseCSVData_D(lines)
      [] variant = "E" -> parseCSVData_E(lines, options.showLocations,
                                         options.showCompanies)

(***************************************************************************)
(* CSV texts the extractors are run on.                                    *)
(***************************************************************************)
MaxPlaced == 2
MaxLines == 4
MaxCap == 2
MaxChars == 5
MaxPairChars == 2

\* one row more than the last row any variant addresses (row 76)
FileRows == 76 + 1

RECURSIVE JoinCells(_)
JoinCells(cs) ==
    IF cs = <<>> THEN <<>>
    ELSE IF Len(cs) = 1 THEN cs[1]
    ELSE cs[1] \o <<",">> \o JoinCells(Tail(cs))

Quoted(s) == <<"\"">> \o s \o <<"\"">>

N1234 == <<"1", ",", "2", "3", "4">>
N567 == <<"5", "6", "7">>
N12 == <<"1", "2">>
Minus3 == <<"-", "3">>

LBlank == <<>>
LTotalC == JoinCells(<< <<"Total Active Jobs">>, <<>>, Quoted(N1234) >>)
LTotalB == JoinCells(<< <<"Total Active Jobs">>, Quoted(N1234) >>)
LCalifornia == JoinCells(<< <<"California">>, N567 >>)
LNegative == JoinCells(<< <<"Oakland">>, Minus3, <<"-", "5">> >>)
LPortEngineer == JoinCells(<< <<"Port Engineer">>, N12, <<"$80k-$100k">> >>)
LNotANumber == JoinCells(<< <<"Oakland">>, <<"n/a">> >>)
LOneCell == <<"Oakland">>
LNoLabel == JoinCells(<< <<>>, <<"5">> >>)
LHeaderCity == JoinCells(<< <<"City">>, <<"5">> >>)
LHeaderJob == JoinCells(<< <<"Job Title">>, <<"5">>, <<"Pay Range">> >>)

FixedLines ==
    {LBlank, LTotalC, LTotalB, LNegative, LNotANumber, LOneCell, LNoLabel,
     LHeaderJob}

Fillers == {LBlank, LPortEngineer}

\* the rows a variant addresses, their neighbours, and the bounds its loops test
RowsOfInterest(variant) ==
    CASE variant = "A" -> {2, 7, 13, 22, 23, 29}
      [] variant = "B" -> {3, 5, 10, 18, 19, 53}
      [] variant = "D" -> {3, 10, 18, 28, 53, 67}

\* where a truncated text may end
Lengths(variant) ==
    CASE variant = "A" -> {6, 30}
      [] variant = "B" -> {4, 13, FileRows}
      [] variant = "D" -> {9, FileRows}

\* the text of n lines holding placed[r] at each row r of its domain and
\* the filler elsewhere
CsvWith(placed, filler, n) ==
    [r \in 1..n |-> IF r \in DOMAIN placed THEN placed[r] ELSE filler]

\* rows of variant C: a tag in column A, then metric, value and pay range
CTotal == JoinCells(<< <<"Summary">>, <<"Total Active Job Openings">>, Quoted(N1234) >>)
CUpdatedNoValue == JoinCells(<< <<"Summary">>, <<"Last Updated">> >>)
CSectionCity == JoinCells(<< <<"Section">>, <<"City">> >>)
CSectionJob == JoinCells(<< <<"Section">>, <<"Job Title">> >>)
CCity == JoinCells(<< <<"CA Cities">>, <<"Oakland">>, <<"5">> >>)
CCityNoName == JoinCells(<< <<"CA Cities">>, <<>>, <<"5">> >>)
CCityNegative == JoinCells(<< <<"CA Cities">>, <<"Alameda">>, Minus3 >>)
CJob == JoinCells(<< <<"Top Jobs">>, <<"Port Engineer">>, N12, <<"$80k-$100k">> >>)

MarkerLinesC ==
    {LBlank, CTotal, CUpdatedNoValue, CSectionCity, CSectionJob, CCity,
     CCityNoName, CCityNegative, CJob}

\* lines of variant E: section titles, a header row, label and count
ETitleSummary == <<"MARITIME JOB MARKET SUMMARY">>
ETitleLocations == <<"JOB DISTRIBUTION BY LOCATION">>
ETitleCompanies == <<"TOP", " ", "HIRING COMPANIES">>
ETitleSkills == <<"TOP SKILLS">>
ETotal == JoinCells(<< <<"Total Active Jobs">>, Quoted(N1234) >>)

MarkerLinesE ==
    {LBlank, ETitleSummary, ETitleLocations, ETitleCompanies, ETitleSkills, ETotal,
     LCalifornia, LHeaderCity}

\* every text of at most n lines over the given lines (at least one line)
TextsOver(lineSet, n) == UNION { [1..k -> lineSet] : k \in 1..n }

\* the stated scenario: a section of 12 equal rows (under a cap of 10)
TwelveRowsC == <<CSectionJob>> \o [k \in 1..12 |-> CJob]
TwelveRowsE == <<ETitleLocations, LHeaderCity>> \o [k \in 1..12 |-> LCalifornia]

OptionsC(cap) == [showTopItems |-> cap]
OptionsE(cap) == [showLocations |-> cap, showJobTitles |-> 10, showCompanies |-> cap]

VARIABLES
    exVariant,    \* the class whose extractor runs
    exOptions,    \* its options
    exCsv,        \* the lines of csvText
    exPc,         \* "input" before the call, "done" after it
    exCells,      \* the cells the tokenizer made of each line
    exReport,     \* what the extractor returned
    exRow,        \* the row of the sheet that was edited since (0: none)
    exBefore      \* what the extractor returned before the edit

exVars == <<exVariant, exOptions, exCsv, exPc, exCells, exReport, exRow, exBefore>>

\* a fixed-position text: some rows of interest hold chosen lines
InitFixedInput ==
    \E v \in {"A", "B", "D"} :
    \E rows \in { R \in SUBSET RowsOfInterest(v) : Cardinality(R) <= MaxPlaced } :
    \E placed \in [rows -> FixedLines], filler \in Fillers, n \in Lengths(v) :
        /\ exVariant = v
        /\ exOptions = DefaultOptions(v)
        /\ exCsv = CsvWith(placed, filler, n)

\* a marker text: a few lines in any order, under a small cap
InitMarkerInput ==
    \E cap \in 0..MaxCap :
        \/ /\ exVariant = "C"
           /\ exOptions = OptionsC(cap)
           /\ exCsv \in TextsOver(MarkerLinesC, MaxLines)
        \/ /\ exVariant = "E"
           /\ exOptions = OptionsE(cap)
           /\ exCsv \in TextsOver(MarkerLinesE, MaxLines)

\* the stated sheet of part_000: "1,234" in column C of line 3 and "567" in
\* column B of line 10, other lines varying
Line3Total == {LTotalC, JoinCells(<< N12, N567, Quoted(N1234), N12 >>)}
Line10California == {JoinCells(<< <<"California">>, Quoted(N567) >>)}
OtherRowsD == {2, 4, 9, 18}
OtherLinesD == {LBlank, LTotalC, LNegative, LOneCell}

InitSheetD ==
    \E rows \in { R \in SUBSET OtherRowsD : Cardinality(R) <= MaxPlaced } :
    \E placed \in [rows -> OtherLinesD], filler \in Fillers, n \in {10, FileRows} :
    \E l3 \in Line3Total, l10 \in Line10California :
        /\ exVariant = "D"
        /\ exOptions = DefaultOptions("D")
        /\ exCsv = CsvWith((3 :> l3) @@ (10 :> l10) @@ placed, filler, n)

\* one line of a few characters: commas, quotes, blanks and a letter, and
\* the stated cell "Acme, Inc."
LineChars == {",", "\"", " ", "a"}
LAcme == Quoted(<<"Acme", ",", " ", "Inc.">>)

InitLine ==
    \E v \in {"B", "D"} :
    \E line \in {LAcme, JoinCells(<< LAcme, N12 >>)}
                 \cup UNION { [1..k -> LineChars] : k \in 0..MaxChars } :
        /\ exVariant = v
        /\ exOptions = DefaultOptions(v)
        /\ exCsv = << line >>

\* two short lines: what the first leaves open meets the second
InitTwoLines ==
    \E v \in {"C", "D"} :
    \E first \in UNION { [1..k -> LineChars] : k \in 0..MaxPairChars } :
    \E second \in UNION { [1..k -> LineChars] : k \in 0..MaxPairChars } :
        /\ exVariant = v
        /\ exOptions = DefaultOptions(v)
        /\ exCsv = << first, second >>

InitScenario ==
    \/ /\ exVariant = "C"
       /\ exOptions = DefaultOptions("C")
       /\ exCsv = TwelveRowsC
    \/ /\ exVariant = "E"
       /\ exOptions = OptionsE(10)
       /\ exCsv = TwelveRowsE
    \/ \E cap \in 0..MaxCap :
           /\ exVariant = "A"
           /\ exOptions = OptionsE(cap)
           /\ exCsv = CsvWith(<<>>, LPortEngineer, 30)

InitInput ==
    /\ InitFixedInput \/ InitMarkerInput \/ InitScenario \/ InitSheetD \/ InitLine
       \/ InitTwoLines
    /\ exPc = "input"
    /\ exCells = <<>>
    /\ exReport = Undefined
    /\ exRow = 0
    /\ exBefore = Undefined

\* this.data = this.parseCSVData(csvText)
RunExtract ==
    /\ exPc = "input"
    /\ exPc' = "done"
    /\ exCells' = Tokenize(exCsv)
    /\ exReport' = Extract(exVariant, exOptions, exCsv)
    /\ UNCHANGED <<exVariant, exOptions, exCsv, exRow, exBefore>>

\* a sheet of the fixed-position classes with its summary rows filled and
\* a few of its list rows set apart from the rest
SummaryRows(v) ==
    IF v = "A" THEN (2 :> LTotalB) @@ (7 :> LCalifornia)
    ELSE (3 :> LTotalC) @@ (10 :> LCalifornia)

ListRows(v) == IF v = "A" THEN {14, 26} ELSE {19, 54, 68}

SheetLength(v) == IF v = "A" THEN 30 ELSE FileRows

InitSheet ==
    \E v \in {"A", "D"} :
    \E rows \in { R \in SUBSET ListRows(v) : Cardinality(R) <= MaxPlaced } :
    \E placed \in [rows -> {LCalifornia, LHeaderJob}], filler \in Fillers :
        /\ exVariant = v
        /\ exOptions = DefaultOptions(v)
        /\ exCsv = CsvWith(SummaryRows(v) @@ placed, filler, SheetLength(v))
        /\ exPc = "input"
        /\ exCells = <<>>
        /\ exReport = Undefined
        /\ exRow = 0
        /\ exBefore = Undefined

\* lines that lack the cells or the number a row is read for
Malformed == {LBlank, LOneCell, LNotANumber, LNoLabel}

\* the rows that are edited: the addressed rows, the ends of the blocks and
\* rows no field is read from
EditedRows(v) ==
    IF v = "A" THEN {1, 2, 7, 13, 14, 22, 23, 25, 29}
    ELSE {3, 9, 10, 18, 19, 27, 28, 53, 62, 67, 76}

\* one line of the sheet is replaced, and the next load extracts again
ReExtract(i, bad) ==
    /\ exPc = "done"
    /\ i \in EditedRows(exVariant)
    /\ i <= Len(exCsv)
    /\ exCsv[i] # bad
    /\ exPc' = "replaced"
    /\ exRow' = i
    /\ exBefore' = exReport
    /\ exCsv' = [exCsv EXCEPT ![i] = bad]
    /\ exCells' = Tokenize(exCsv')
    /\ exReport' = Extract(exVariant, exOptions, exCsv')
    /\ UNCHANGED <<exVariant, exOptions>>

(***************************************************************************)
(* localStorage and the JSON text it holds.  A slot is absent, holds text  *)
(* that is not JSON, or holds the JSON text of a value.                    *)
(***************************************************************************)
Absent == [kind |-> "absent"]
NotJson == [kind |-> "text"]

\* What JSON text can say of a value: a property holding undefined is left
\* out, undefined in an array and NaN become null.
RECURSIVE ToJson(_)
ToJson(v) ==
    CASE v.t = "obj" ->
             LET kept == {k \in DOMAIN v.o : v.o[k].t # "undefined"}
             IN  Obj([k \in kept |-> ToJson(v.o[k])])
      [] v.t = "arr" ->
             Arr([i \in 1..Len(v.a) |->
                    IF v.a[i].t = "undefined" THEN Null ELSE ToJson(v.a[i])])
      [] v.t = "NaN" -> Null
      [] OTHER -> v

\* JSON.stringify(value), as the content of a slot
JSONstringify(v) == [kind |-> "json", value |-> ToJson(v)]

\* JSON.parse(text) throws a SyntaxError on text that is not JSON
JSONparseThrows(content) == content.kind = "text"

JSONparse(content) == content.value

Keys == {"maritime-widget-cache", "maritime-widget-data"}

\* the key the variant's getCachedData and cacheData use
CacheKey(variant) ==
    IF variant = "C" THEN "maritime-widget-data" ELSE "maritime-widget-cache"

oneHour == 60 * 60 * 1000

\* Date.now() - parsed.timestamp
CacheAge(now, timestamp) ==
    CASE timestamp.t = "num" -> Num(now - timestamp.n)
      [] timestamp.t = "null" -> Num(now)
      [] OTHER -> NaN

\* a cache that also serves an entry exactly one hour old
IsFreshInclusive(cacheAge) == cacheAge.t = "num" /\ cacheAge.n <= oneHour

\* a cache that takes an entry from the future for stale
IsFreshNotFromTheFuture(cacheAge) ==
    cacheAge.t = "num" /\ cacheAge.n >= 0 /\ cacheAge.n < oneHour

\* cacheAge < oneHour
IsFresh(cacheAge) == cacheAge.t = "num" /\ cacheAge.n < oneHour

\* a get that never serves what the slot holds
getCachedDataAlwaysMisses(variant, store, now, getThrows) ==
    [result |-> Null, store |-> store]

\* a get that restarts the hour of the entry it serves
getCachedDataTouches(variant, store, now, getThrows) ==
    LET key == CacheKey(variant)
        cached == store[key]
    IN  IF cached.kind = "json" /\ cached.value.t = "obj"
           /\ IsFresh(CacheAge(now, Get(cached.value, "timestamp")))
        THEN [result |-> IF variant = "C" THEN Get(cached.value, "data")
                         ELSE cached.value,
              store |-> [store EXCEPT ![key] =
                            JSONstringify(Set(cached.value, "timestamp", Num(now)))]]
        ELSE [result |-> Null, store |-> [store EXCEPT ![key] = Absent]]

\* getCachedData(): what it returns and what it leaves in storage.
\* getThrows: localStorage.getItem throws (storage unavailable).
getCachedData(variant, store, now, getThrows) ==
    LET key == CacheKey(variant)
        cached == store[key]
        miss == [result |-> Null, store |-> store]
    IN  IF getThrows THEN miss
        ELSE IF cached.kind = "absent" THEN miss
        ELSE IF JSONparseThrows(cached) THEN miss
        ELSE LET parsed == JSONparse(cached)
             IN  IF Throws(parsed) THEN miss
                 ELSE IF IsFresh(CacheAge(now, Get(parsed, "timestamp")))
                 THEN [result |-> IF variant = "C" THEN Get(parsed, "data")
                                  ELSE parsed,
                       store |-> store]
                 ELSE [result |-> Null,
                       store |-> [store EXCEPT ![key] = Absent]]

\* a put that writes only into an empty slot
cacheDataWhenEmpty(variant, store, now, data, setThrows) ==
    IF setThrows \/ store[CacheKey(variant)] # Absent THEN store
    ELSE [store EXCEPT ![CacheKey(variant)] =
              JSONstringify(Obj([data |-> data, timestamp |-> Num(now)]))]

\* a put that reports no failure but writes through a failing setItem
cacheDataWritesAnyway(variant, store, now, data, setThrows) ==
    [store EXCEPT ![CacheKey(variant)] =
        JSONstringify(Obj([data |-> data, timestamp |-> Num(now)]))]

\* cacheData(data): the storage it leaves.
\* setThrows: localStorage.setItem throws (quota exceeded, unavailable).
cacheData(variant, store, now, data, setThrows) ==
    IF setThrows THEN store
    ELSE [store EXCEPT ![CacheKey(variant)] =
              JSONstringify(Obj([data |-> data, timestamp |-> Num(now)]))]

(***************************************************************************)
(* The widget: constructor, init, loadData, render and the refresh timer.  *)
(***************************************************************************)
MaxLoads == 2
MaxTicks == 2

Widgets == {"w1", "w2"}

\* how far Date.now() moves between two events
ClockDeltas == {1, oneHour - 1}

\* Date.now() when the page loads
StartTime == oneHour

\* response bodies: two sheets, and the page a failing server answers with
Body1(v) ==
    CASE v = "A" -> CsvWith((2 :> LTotalB) @@ (7 :> LCalifornia) @@ (13 :> LPortEngineer),
                            LBlank, 13)
      [] v = "B" -> CsvWith((3 :> LTotalB) @@ (10 :> LCalifornia) @@ (18 :> LCalifornia),
                            LBlank, 18)
      [] v = "C" -> <<CTotal, CSectionCity, CCity>>
      [] v = "D" -> CsvWith((3 :> LTotalC) @@ (10 :> LCalifornia), LBlank, 10)
      [] v = "E" -> <<ETitleSummary, ETotal>>

Body2(v) ==
    CASE v = "A" -> CsvWith((2 :> LCalifornia), LBlank, 2)
      [] v = "B" -> CsvWith((3 :> LCalifornia), LBlank, 5)
      [] v = "C" -> <<CUpdatedNoValue, CSectionJob, CJob>>
      [] v = "D" -> CsvWith((3 :> LNegative), LBlank, 3)
      [] v = "E" -> <<ETitleLocations, LHeaderCity, LCalifornia>>

ErrorPage == << <<"<html>Not Found</html>">> >>

OkBodies(v) == {Body1(v), Body2(v)}

\* options.apiUrl: the default sheet, which is edited between loads, and two
\* other sheets that are not
Urls == {"MaritimeReport", "sheet1", "sheet2"}

\* the bodies an ok response from a url may carry
SheetsAt(url, v) ==
    CASE url = "sheet1" -> {Body1(v)}
      [] url = "sheet2" -> {Body2(v)}
      [] OTHER -> OkBodies(v)

\* what a load hands to this.data for a body
ReportOf(v, body) == Extract(v, DefaultOptions(v), body)

\* a cache entry as cacheData builds it
Entry(report, timestamp) == Obj([data |-> report, timestamp |-> Num(timestamp)])

\* slot contents that are not an entry cacheData wrote: text that is not
\* JSON, and JSON that is no entry with a report and a number
CorruptContents(now) ==
    { NotJson,
      JSONstringify(Null),
      JSONstringify(EmptyObj),
      JSONstringify(Obj([timestamp |-> Num(now)])),
      JSONstringify(Entry(Num(42), now)) }

\* how far the clock was set back after an earlier page load
SetBack == oneHour - 2

\* what an earlier page load may have left: an entry one hour old, or one
\* millisecond younger, or one written before the clock was set back
LeftBehind(v, now) ==
    { JSONstringify(Entry(ReportOf(v, Body1(v)), now - oneHour)),
      JSONstringify(Entry(ReportOf(v, Body1(v)), now - oneHour + 1)),
      JSONstringify(Entry(ReportOf(v, Body1(v)), now + SetBack)) }

Empty == [kind |-> "empty"]
Loading == [kind |-> "loading"]
Error == [kind |-> "error"]
Rendered(d) == [kind |-> "report", data |-> d]

\* new Date(v)
Date(v) == [t |-> "date", time |-> IF v.t = "num" THEN v ELSE NaN]

NoGet == [done |-> FALSE]
NoPut == [done |-> FALSE]

\* how a load ended: what came back from the network ("cache" when the
\* load never asked), what loadData returned, whether it parsed a body and
\* whether setItem completed
Outcome(transport, returned, extracted, stored, body) ==
    [transport |-> transport, returned |-> returned, extracted |-> extracted,
     stored |-> stored, body |-> body]

NoOutcome == Outcome("none", "none", FALSE, FALSE, <<>>)

VARIABLES
    variant,      \* the class the page runs
    page,         \* the widgets the page constructs: widget -> options.apiUrl
    refresh,      \* options.refreshInterval is set (truthy, positive)
    getThrows,    \* localStorage.getItem throws
    setThrows,    \* localStorage.setItem throws
    clock,        \* Date.now()
    ticks,        \* how often the clock has moved
    store,        \* localStorage: key -> content
    data,         \* this.data of each widget
    lastUpdate,   \* this.lastUpdate of each widget
    display,      \* this.container.innerHTML of each widget
    timerOn,      \* the widget's setInterval is installed
    loads,        \* the loads suspended at an await
    started,      \* how many fetches have been issued
    uncaught,     \* an exception left init or a timer callback
    lastGet,      \* the latest getCachedData call: slot before, time, result
    lastPut,      \* the latest cacheData call: slot before and after, report
    outcome,      \* each widget's latest settled load
    settled       \* the loads whose body arrived, in the order of arrival

wVars == <<variant, page, refresh, getThrows, setThrows, clock, ticks, store, data,
           lastUpdate, display, timerOn, loads, started, uncaught, lastGet,
           lastPut, outcome, settled>>

vars == <<wVars, exVars>>

Cached(v) == v # "B"

\* render(): what the container shows afterwards, or that render threw
RenderThrows(v, d) ==
    CASE v = "B" -> \/ Throws(Get(d, "summary"))
                    \/ Throws(Get(Get(d, "summary"), "totalJobs"))
                    \/ Throws(Get(d, "californiaJobs"))
      [] v = "C" -> FALSE
      [] OTHER -> Throws(Get(d, "summary"))

render(v, d, before) ==
    IF ~Truthy(d) THEN [display |-> Error, threw |-> FALSE]
    ELSE IF RenderThrows(v, d) THEN [display |-> before, threw |-> TRUE]
    ELSE [display |-> Rendered(d), threw |-> FALSE]

\* an init that calls setInterval without looking at refreshInterval
AfterLoadAlwaysInstalls(w, origin, d, shown) ==
    LET r == render(variant, d, shown)
    IN  /\ display' = [display EXCEPT ![w] = r.display]
        /\ uncaught' = (uncaught \/ r.threw)
        /\ timerOn' = [timerOn EXCEPT ![w] = IF origin = "init" THEN ~r.threw ELSE @]

\* the part of init and of the timer callback that follows loadData:
\* render, and for init the setInterval call
AfterLoad(w, origin, d, shown) ==
    LET r == render(variant, d, shown)
    IN  /\ display' = [display EXCEPT ![w] = r.display]
        /\ uncaught' = (uncaught \/ r.threw)
        /\ timerOn' = [timerOn EXCEPT
                          ![w] = IF origin = "init" THEN refresh /\ ~r.threw ELSE @]

\* loadData up to its first await
Enter(w, origin, shown) ==
    IF Cached(variant)
    THEN LET key == CacheKey(variant)
             g == getCachedData(variant, store, clock, getThrows)
         IN  /\ lastGet' = [done |-> TRUE, by |-> w, before |-> store[key], now |-> clock,
                            result |-> g.result, after |-> g.store[key],
                            threw |-> getThrows, fetched |-> ~Truthy(g.result)]
             /\ store' = g.store
             /\ UNCHANGED lastPut
             /\ IF Truthy(g.result)
                THEN LET d == IF variant = "C" THEN g.result ELSE Get(g.result, "data")
                     IN  /\ data' = [data EXCEPT ![w] = d]
                         /\ lastUpdate' =
                                IF variant = "C" THEN lastUpdate
                                ELSE [lastUpdate EXCEPT
                                         ![w] = Date(Get(g.result, "timestamp"))]
                         /\ AfterLoad(w, origin, d, shown)
                         /\ outcome' = [outcome EXCEPT
                                ![w] = Outcome("cache", "true", FALSE, FALSE, <<>>)]
                         /\ UNCHANGED <<loads, started>>
                ELSE /\ started < MaxLoads
                     /\ started' = started + 1
                     /\ loads' = loads \cup {[id |-> started + 1, w |-> w,
                                              origin |-> origin, stage |-> "fetch",
                                              ok |-> TRUE]}
                     /\ display' = [display EXCEPT ![w] = shown]
                     /\ UNCHANGED <<data, lastUpdate, uncaught, timerOn, outcome>>
    ELSE /\ started < MaxLoads
         /\ started' = started + 1
         /\ loads' = loads \cup {[id |-> started + 1, w |-> w, origin |-> origin,
                                  stage |-> "fetch", ok |-> TRUE]}
         /\ display' = [display EXCEPT ![w] = shown]
         /\ timerOn' = [timerOn EXCEPT ![w] = IF origin = "init" THEN refresh ELSE @]
         /\ UNCHANGED <<store, data, lastUpdate, uncaught, outcome, lastGet, lastPut>>

\* new MaritimeJobWidget(containerId, options): the constructor and init
Construct(w) ==
    /\ w \in DOMAIN page
    /\ display[w] = Empty
    /\ Enter(w, "init", Loading)
    /\ UNCHANGED <<variant, page, settled, refresh, getThrows, setThrows, clock, ticks, exVars>>

\* the setInterval callback
TimerFire(w) ==
    /\ timerOn[w]
    /\ Enter(w, "timer", display[w])
    /\ UNCHANGED <<variant, page, settled, refresh, getThrows, setThrows, clock, ticks, exVars>>

\* a failed load after which the caller does not render
FailShowsError(l, transport) ==
    /\ loads' = loads \ {l}
    /\ display' = [display EXCEPT ![l.w] = Error]
    /\ outcome' = [outcome EXCEPT
           ![l.w] = Outcome(transport, "false", FALSE, FALSE, <<>>)]
    /\ timerOn' = [timerOn EXCEPT ![l.w] = IF l.origin = "init" THEN refresh ELSE @]
    /\ UNCHANGED <<variant, page, settled, refresh, getThrows, setThrows, clock, ticks, store, data,
                   lastUpdate, started, uncaught, lastGet, lastPut, exVars>>

\* the catch block of loadData, and what the caller does with false
Fail(l, transport) ==
    /\ loads' = loads \ {l}
    /\ IF Cached(variant)
       THEN /\ AfterLoad(l.w, l.origin, data[l.w], Error)
            /\ outcome' = [outcome EXCEPT
                   ![l.w] = Outcome(transport, "false", FALSE, FALSE, <<>>)]
       ELSE /\ display' = [display EXCEPT ![l.w] = Error]
            /\ outcome' = [outcome EXCEPT
                   ![l.w] = Outcome(transport, "undefined", FALSE, FALSE, <<>>)]
            /\ UNCHANGED <<uncaught, timerOn>>
    /\ UNCHANGED <<variant, page, settled, refresh, getThrows, setThrows, clock, ticks, store, data,
                   lastUpdate, started, lastGet, lastPut, exVars>>

\* fetch(apiUrl) rejects
FetchReject(l) ==
    /\ l \in loads
    /\ l.stage = "fetch"
    /\ Fail(l, "rejected")

\* fetch(apiUrl) resolves with a response whose ok flag is given
FetchResolve(l, ok) ==
    /\ l \in loads
    /\ l.stage = "fetch"
    /\ IF variant \in {"B", "C"} /\ ~ok
       THEN Fail(l, "status")
       ELSE /\ loads' = (loads \ {l}) \cup {[l EXCEPT !.stage = "text", !.ok = ok]}
            /\ UNCHANGED <<variant, page, settled, refresh, getThrows, setThrows, clock, ticks, store,
                           data, lastUpdate, display, timerOn, started, uncaught,
                           lastGet, lastPut, outcome, exVars>>

\* response.text() rejects
TextReject(l) ==
    /\ l \in loads
    /\ l.stage = "text"
    /\ Fail(l, "body")

\* a load that drops the body of a request issued before one that has
\* already been answered
TextResolveDropsStale(l, body) ==
    /\ l \in loads
    /\ l.stage = "text"
    /\ body \in (IF l.ok THEN SheetsAt(page[l.w], variant) ELSE {ErrorPage})
    /\ loads' = loads \ {l}
    /\ settled' = Append(settled, [id |-> l.id, w |-> l.w, body |-> body])
    /\ LET report == ReportOf(variant, body)
           key == CacheKey(variant)
           written == cacheData(variant, store, clock, report, setThrows)
       IN  IF \E k \in 1..Len(settled) : settled[k].w = l.w /\ settled[k].id > l.id
           THEN /\ outcome' = [outcome EXCEPT
                       ![l.w] = Outcome("ok", "true", TRUE, FALSE, body)]
                /\ UNCHANGED <<data, display, store, lastPut, uncaught, timerOn>>
           ELSE /\ data' = [data EXCEPT ![l.w] = report]
                /\ outcome' = [outcome EXCEPT
                       ![l.w] = Outcome("ok", "true", TRUE, ~setThrows, body)]
                /\ IF Cached(variant)
                   THEN /\ store' = written
                        /\ lastPut' = [done |-> TRUE, by |-> l.w, before |-> store[key],
                                       now |-> clock, report |-> report,
                                       after |-> written[key], threw |-> setThrows]
                        /\ AfterLoad(l.w, l.origin, report, display[l.w])
                   ELSE /\ display' = [display EXCEPT ![l.w] = Rendered(report)]
                        /\ UNCHANGED <<store, lastPut, uncaught, timerOn>>
    /\ UNCHANGED <<variant, page, refresh, getThrows, setThrows, clock, ticks, started,
                   lastGet, lastUpdate, exVars>>

\* response.text() resolves with a body: the rest of loadData's try block
TextResolve(l, body) ==
    /\ l \in loads
    /\ l.stage = "text"
    /\ body \in (IF l.ok THEN SheetsAt(page[l.w], variant) ELSE {ErrorPage})
    /\ loads' = loads \ {l}
    /\ LET report == ReportOf(variant, body)
           key == CacheKey(variant)
           written == cacheData(variant, store, clock, report, setThrows)
           transport == IF l.ok THEN "ok" ELSE "status"
       IN  /\ data' = [data EXCEPT ![l.w] = report]
           /\ lastUpdate' = IF variant = "C" THEN lastUpdate
                            ELSE [lastUpdate EXCEPT ![l.w] = Date(Num(clock))]
           /\ IF Cached(variant)
              THEN /\ store' = written
                   /\ lastPut' = [done |-> TRUE, by |-> l.w, before |-> store[key], now |-> clock,
                                  report |-> report, after |-> written[key],
                                  threw |-> setThrows]
                   /\ AfterLoad(l.w, l.origin, report, display[l.w])
                   /\ outcome' = [outcome EXCEPT
                          ![l.w] = Outcome(transport, "true", TRUE, ~setThrows, body)]
              ELSE /\ display' = [display EXCEPT
                          ![l.w] = IF RenderThrows(variant, report) THEN Error
                                   ELSE Rendered(report)]
                   /\ outcome' = [outcome EXCEPT
                          ![l.w] = Outcome(transport, "undefined", TRUE, FALSE, body)]
                   /\ UNCHANGED <<store, lastPut, uncaught, timerOn>>
    /\ settled' = Append(settled, [id |-> l.id, w |-> l.w, body |-> body])
    /\ UNCHANGED <<variant, page, refresh, getThrows, setThrows, clock, ticks, started,
                   lastGet, exVars>>

\* time passes
Tick(d) ==
    /\ ticks < MaxTicks
    /\ ticks' = ticks + 1
    /\ clock' = clock + d
    /\ UNCHANGED <<variant, page, settled, refresh, getThrows, setThrows, store, data, lastUpdate,
                   display, timerOn, loads, started, uncaught, lastGet, lastPut,
                   outcome, exVars>>

\* part_001 repeats lines 7-118 of maritime-widget.js, so its lifecycle is
\* that of variant A
Lifecycles == Variants \ {"E"}

\* localStorage works, refuses writes (quota), or refuses every access
StorageModes == {"works", "full", "unavailable"}

\* the extraction runs are switched off while the widget runs, and the
\* widget while an extraction runs
ExtractOff ==
    /\ exVariant = "A"
    /\ exOptions = DefaultOptions("A")
    /\ exCsv = <<LBlank>>
    /\ exPc = "off"
    /\ exCells = <<>>
    /\ exReport = Undefined
    /\ exRow = 0
    /\ exBefore = Undefined

WidgetOff ==
    /\ variant = "A"
    /\ page = [w \in {"w1"} |-> "MaritimeReport"]
    /\ refresh = FALSE
    /\ getThrows = FALSE
    /\ setThrows = FALSE
    /\ clock = StartTime
    /\ ticks = 0
    /\ store = [k \in Keys |-> Absent]
    /\ data = [w \in Widgets |-> Null]
    /\ lastUpdate = [w \in Widgets |-> Null]
    /\ display = [w \in Widgets |-> Empty]
    /\ timerOn = [w \in Widgets |-> FALSE]
    /\ loads = {}
    /\ started = 0
    /\ uncaught = FALSE
    /\ lastGet = NoGet
    /\ lastPut = NoPut
    /\ outcome = [w \in Widgets |-> NoOutcome]
    /\ settled = <<>>

Init ==
    /\ variant \in Lifecycles
    /\ page = [w \in {"w1"} |-> "MaritimeReport"]
    /\ refresh \in BOOLEAN
    /\ \E storage \in (IF Cached(variant) THEN StorageModes ELSE {"works"}) :
           /\ getThrows = (storage = "unavailable")
           /\ setThrows = (storage \in {"unavailable", "full"})
           /\ \E content \in {Absent} \cup (IF Cached(variant) /\ storage # "unavailable"
                                           THEN LeftBehind(variant, StartTime)
                                                \cup CorruptContents(StartTime)
                                           ELSE {}) :
                  store = [k \in Keys |->
                              IF k = CacheKey(variant) THEN content ELSE Absent]
    /\ clock = StartTime
    /\ ticks = 0
    /\ data = [w \in Widgets |-> Null]
    /\ lastUpdate = [w \in Widgets |-> Null]
    /\ display = [w \in Widgets |-> Empty]
    /\ timerOn = [w \in Widgets |-> FALSE]
    /\ loads = {}
    /\ started = 0
    /\ uncaught = FALSE
    /\ lastGet = NoGet
    /\ lastPut = NoPut
    /\ outcome = [w \in Widgets |-> NoOutcome]
    /\ settled = <<>>
    /\ ExtractOff

Next ==
    \/ \E w \in Widgets : Construct(w)
    \/ \E w \in Widgets : TimerFire(w)
    \/ \E l \in loads : FetchReject(l)
    \/ \E l \in loads, ok \in BOOLEAN : FetchResolve(l, ok)
    \/ \E l \in loads : TextReject(l)
    \/ \E l \in loads, body \in OkBodies(variant) \cup {ErrorPage} : TextResolve(l, body)
    \/ \E d \in ClockDeltas : Tick(d)

Spec == Init /\ [][Next]_vars

\* a page with two widgets of the same class, configured with different
\* urls, on a working and empty localStorage
InitPage ==
    /\ variant \in {"A", "C"}
    /\ page = [w \in Widgets |-> IF w = "w1" THEN "sheet1" ELSE "sheet2"]
    /\ refresh = TRUE
    /\ getThrows = FALSE
    /\ setThrows = FALSE
    /\ store = [k \in Keys |-> Absent]
    /\ clock = StartTime
    /\ ticks = 0
    /\ data = [w \in Widgets |-> Null]
    /\ lastUpdate = [w \in Widgets |-> Null]
    /\ display = [w \in Widgets |-> Empty]
    /\ timerOn = [w \in Widgets |-> FALSE]
    /\ loads = {}
    /\ started = 0
    /\ uncaught = FALSE
    /\ lastGet = NoGet
    /\ lastPut = NoPut
    /\ outcome = [w \in Widgets |-> NoOutcome]
    /\ settled = <<>>
    /\ ExtractOff

SpecPage == InitPage /\ [][Next]_vars

NextExtract == RunExtract /\ UNCHANGED wVars

InitExtract == InitInput /\ WidgetOff

SpecExtract == InitExtract /\ [][NextExtract]_vars

NextReplace ==
    \/ RunExtract /\ UNCHANGED wVars
    \/ \E i \in 1..FileRows, bad \in Malformed : ReExtract(i, bad) /\ UNCHANGED wVars

InitReplace == InitSheet /\ WidgetOff

SpecReplace == InitReplace /\ [][NextReplace]_vars

\* the texts an extraction is repeated on: the sheets of the fixed-position
\* classes and the short texts of the class of lines 685-1022
InitTexts ==
    \/ InitSheet
    \/ \E cap \in 0..MaxCap :
           /\ exVariant = "C"
           /\ exOptions = OptionsC(cap)
           /\ exCsv \in TextsOver(MarkerLinesC, 2)
           /\ exPc = "input"
           /\ exCells = <<>>
           /\ exReport = Undefined
           /\ exRow = 0
           /\ exBefore = Undefined

\* another load between the two: this.data becomes the report of another
\* text
RunOther(text) ==
    /\ exPc = "done"
    /\ exPc' = "other"
    /\ exBefore' = exReport
    /\ exReport' = Extract(exVariant, exOptions, text)
    /\ UNCHANGED <<exVariant, exOptions, exCsv, exCells, exRow>>

\* an extractor that goes on from this.data instead of a new data object
RunAgainOntoData ==
    /\ exPc \in {"done", "other"}
    /\ exPc' = IF exPc = "done" THEN "again" ELSE "again after other"
    /\ exBefore' = IF exPc = "done" THEN exReport ELSE exBefore
    /\ exReport' =
           CASE exVariant = "D" -> LoopD(exCsv, 1, Len(exCsv), exReport)
             [] exVariant = "A" -> LoopA(exCsv, 1, Len(exCsv), exReport)
             [] OTHER -> LoopC(TrimText(exCsv), 1,
                               [data |-> exReport, currentSection |-> "null"],
                               exOptions.showTopItems)
    /\ UNCHANGED <<exVariant, exOptions, exCsv, exCells, exRow>>

\* parseCSVData(csvText) once more on the text of the first call
RunAgain ==
    /\ exPc \in {"done", "other"}
    /\ exPc' = IF exPc = "done" THEN "again" ELSE "again after other"
    /\ exBefore' = IF exPc = "done" THEN exReport ELSE exBefore
    /\ exReport' = Extract(exVariant, exOptions, exCsv)
    /\ UNCHANGED <<exVariant, exOptions, exCsv, exCells, exRow>>

NextTwice ==
    \/ RunExtract /\ UNCHANGED wVars
    \/ \E text \in OkBodies(exVariant) : RunOther(text) /\ UNCHANGED wVars
    \/ RunAgain /\ UNCHANGED wVars

InitTwice == InitTexts /\ WidgetOff

SpecTwice == InitTwice /\ [][NextTwice]_vars

(***************************************************************************)
(* The cache contract (C1-C4, C9, C10), checked under Spec.                *)
(***************************************************************************)

\* a slot content that is an entry as cacheData writes it: a report and a
\* numeric timestamp
IsEntry(content) ==
    /\ content.kind = "json"
    /\ content.value.t = "obj"
    /\ {"data", "timestamp"} \subseteq DOMAIN content.value.o
    /\ content.value.o.timestamp.t = "num"
    /\ content.value.o.data.t = "obj"

\* a slot content that is neither empty nor an entry
IsCorrupt(content) == content # Absent /\ ~IsEntry(content)

\* the age of the entry a get found
AgeAt(get) == get.now - get.before.value.o.timestamp.n

\* what a get hands back for the entry it found: the entry, or in variant C
\* the report in it
Served(get) ==
    IF variant = "C" THEN get.before.value.o.data ELSE get.before.value

\* the report in what a get handed back
ReportServed(get) ==
    IF variant = "C" THEN get.result ELSE Get(get.result, "data")

\* C1: a get on a slot holding an entry returns it exactly when the entry
\* is younger than one hour and then leaves the slot alone; for every age
\* of one hour or more, and on an empty slot, it returns null and the slot
\* is empty afterwards.
C1_GetServesExactlyFreshEntries ==
    lastGet.done /\ (IsEntry(lastGet.before) \/ lastGet.before = Absent) =>
        IF IsEntry(lastGet.before) /\ AgeAt(lastGet) < oneHour
        THEN /\ lastGet.result = Served(lastGet)
             /\ lastGet.after = lastGet.before
        ELSE /\ lastGet.result = Null
             /\ lastGet.after = Absent

\* an entry written by a put at T was served by a get at T + one hour - 1
C1_ServedOneMillisecondBeforeExpiry ==
    /\ lastPut.done
    /\ lastGet.done
    /\ lastGet.before = lastPut.after
    /\ IsEntry(lastGet.before)
    /\ lastGet.now = lastPut.now + oneHour - 1
    /\ Truthy(lastGet.result)

\* C2: a get on a slot holding text that is not JSON returns null and
\* leaves the slot empty.
C2_NonJsonSlotCleared ==
    lastGet.done /\ lastGet.before = NotJson =>
        /\ lastGet.result = Null
        /\ lastGet.after = Absent

\* C3: a get on a slot holding corrupt content (text that is not JSON, or
\* JSON that is no entry with a report and a numeric timestamp) returns
\* nothing, its load goes on to fetch, and no widget's data is anything but
\* null or a report.
C3_CorruptSlotIsAMiss ==
    lastGet.done /\ IsCorrupt(lastGet.before) =>
        /\ ~Truthy(lastGet.result)
        /\ lastGet.fetched
        /\ \A w \in Widgets : data[w] = Null \/ data[w].t = "obj"

\* C4: in the cached variants of maritime-widget.js 7-327, 685-1022 and
\* part_000, a load whose fetch was rejected or answered with a non-success
\* status returned false, parsed no body and wrote nothing to the slot.
C4_TransportFailureReportsFailure ==
    \A w \in Widgets :
        variant \in {"A", "C", "D"} /\ outcome[w].transport \in {"rejected", "status"} =>
            /\ outcome[w].returned = "false"
            /\ ~outcome[w].extracted
            /\ ~outcome[w].stored

C10_StorageFailuresAreSwallowed ==
    /\ lastPut.done /\ lastPut.threw => lastPut.after = lastPut.before
    /\ \A w \in Widgets :
           Cached(variant) /\ setThrows /\ outcome[w].extracted =>
               /\ outcome[w].returned = "true"
               /\ ~outcome[w].stored
               /\ data[w] = ReportOf(variant, outcome[w].body)
    /\ lastGet.done /\ lastGet.threw =>
           /\ lastGet.result = Null
           /\ lastGet.fetched
           /\ ~uncaught

\* with storage refusing every access, a load has fetched, extracted and
\* returned true, and the widget shows the report
C10_LoadedWithoutStorage ==
    \E w \in Widgets :
        /\ getThrows
        /\ setThrows
        /\ lastGet.done
        /\ lastPut.done
        /\ outcome[w].extracted
        /\ outcome[w].returned = "true"
        /\ display[w] = Rendered(data[w])

\* the slot content is an entry younger than one hour
HoldsFreshEntry(content, now) ==
    IsEntry(content) /\ now - content.value.o.timestamp.n < oneHour

C12_OneLoadInFlight ==
    \A w \in Widgets : Cardinality({l \in loads : l.w = w}) <= 1

\* C20: the slot changes only in a put or in a get that finds no fresh
\* entry, which leaves it empty; a get that serves an entry leaves the slot
\* as it was, and serves only an entry younger than one hour.
C20_SlotChangesOnlyByPutOrExpiry ==
    [][ /\ store' # store =>
               \/ \E l \in loads, body \in OkBodies(variant) \cup {ErrorPage} :
                      TextResolve(l, body)
               \/ /\ \E w \in Widgets : Construct(w) \/ TimerFire(w)
                  /\ ~HoldsFreshEntry(store[CacheKey(variant)], clock)
                  /\ store'[CacheKey(variant)] = Absent
        /\ \A w \in Widgets :
               /\ Construct(w) \/ TimerFire(w)
               /\ Cached(variant)
               /\ IsEntry(store[CacheKey(variant)])
               /\ Truthy(lastGet'.result)
               => /\ store' = store
                  /\ clock - store[CacheKey(variant)].value.o.timestamp.n < oneHour
      ]_vars

\* an entry was served some time after it was written and is still in the
\* slot as it was written
C20_ServedEntryUntouched ==
    /\ lastGet.done
    /\ IsEntry(lastGet.before)
    /\ Truthy(lastGet.result)
    /\ AgeAt(lastGet) > 0
    /\ lastPut.done
    /\ lastGet.before = lastPut.after
    /\ store[CacheKey(variant)] = lastPut.after

(***************************************************************************)
(* The extractor's report (C5-C8), checked under SpecExtract.              *)
(***************************************************************************)

\* the summary fields of a variant's report
SummaryFields(v, report) ==
    IF v = "C"
    THEN {Get(report, "totalJobs"), Get(report, "californiaJobs"),
          Get(report, "lastUpdated")}
    ELSE {Get(Get(report, "summary"), "totalJobs"),
          Get(Get(report, "summary"), "californiaJobs")}

\* the ranked lists of a variant's report: list, label field, count
\* field, and the header its label column carries in the sheet
RankedLists(v) ==
    CASE v = "A" -> {<<"jobTitles", "title", "count", "Job Title">>,
                     <<"companies", "company", "count", "Company Name">>}
      [] v = "B" -> {<<"caCities", "city", "count", "City">>,
                     <<"topJobTitles", "title", "count", "Job Title">>,
                     <<"topCompanies", "company", "count", "Company Name">>}
      [] v = "C" -> {<<"topCities", "name", "count", "City">>,
                     <<"topJobs", "title", "count", "Job Title">>,
                     <<"topCompanies", "name", "count", "Company Name">>}
      [] v = "D" -> {<<"cities", "city", "count", "City">>,
                     <<"jobTitles", "title", "openings", "Job Title">>,
                     <<"companies", "company", "count", "Company Name">>}
      [] v = "E" -> {<<"locations", "location", "count", "City">>,
                     <<"companies", "company", "count", "Company Name">>}

\* the lists whose rows the code keeps only with a count above 0
CountFiltered(v) ==
    CASE v = "D" -> {"cities", "companies"}
      [] v = "E" -> {"locations", "companies"}
      [] OTHER -> {}

Entries(report, list) == {Get(report, list).a[k] : k \in 1..LengthOf(report, list)}

NonNegativeInteger(v) == v.t = "num" /\ v.n >= 0

\* C5: in variants C and D every summary field of the extracted report is
\* a non-negative integer or a string.
C5_SummaryFieldsDefined ==
    exPc = "done" /\ exVariant \in {"C", "D"} =>
        \A field \in SummaryFields(exVariant, exReport) :
            NonNegativeInteger(field) \/ field.t = "str"

\* C6: in variants C, D and E no entry of a ranked list has an empty label
\* or the header of its label column as label, and no entry of a
\* count-filtered list has a count of 0 or less.
C6_NoEmptyOrPlaceholderEntries ==
    exPc = "done" /\ exVariant \in {"C", "D", "E"} =>
        \A l \in RankedLists(exVariant) :
            \A e \in Entries(exReport, l[1]) :
                /\ Get(e, l[2]).t = "str"
                /\ Get(e, l[2]).s # <<>>
                /\ Get(e, l[2]) # Str(<<l[4]>>)
                /\ l[1] \in CountFiltered(exVariant) => Get(e, l[3]).n > 0

\* the maximum the options configure for a variant's lists
ConfiguredMax(v, options) ==
    IF v = "B" THEN options.showTopN ELSE options.showTopItems

\* C7: in variants B and C every ranked list is no longer than the
\* configured maximum, and twelve job rows under a cap of 10 give the first
\* ten, each with its label, count and pay range.
C7_ListsCappedInSourceOrder ==
    exPc = "done" /\ exVariant \in {"B", "C"} =>
        /\ \A l \in RankedLists(exVariant) :
               LengthOf(exReport, l[1]) <= ConfiguredMax(exVariant, exOptions)
        /\ exCsv = TwelveRowsC /\ exOptions.showTopItems = 10 =>
               Get(exReport, "topJobs") =
                   Arr([k \in 1..10 |->
                           Obj([title |-> Str(<<"Port Engineer">>), count |-> Num(12),
                                payRange |-> Str(<<"$80k-$100k">>)])])

\* C8: in variants C and D the count of every ranked-list entry is a
\* non-negative integer.
C8_CountsNonNegative ==
    exPc = "done" /\ exVariant \in {"C", "D"} =>
        \A l \in RankedLists(exVariant) :
            \A e \in Entries(exReport, l[1]) : NonNegativeInteger(Get(e, l[3]))

(***************************************************************************)
(* Two widgets on one page (C13), checked under SpecPage.                  *)
(***************************************************************************)

\* C13: every widget of the page reads and writes the one slot of its
\* class, whatever its url: a get by one widget on what a put by the other
\* left, less than one hour after that put, is served the report that was
\* put; and a put by either widget replaces what the slot held, so the slot
\* holds the entry of the latest put until a get finds it stale.
C13_OneSlotForAllWidgets ==
    /\ \A k \in Keys \ {CacheKey(variant)} : store[k] = Absent
    /\ /\ lastGet.done
       /\ lastPut.done
       /\ lastGet.by # lastPut.by
       /\ lastGet.before = lastPut.after
       /\ lastGet.now - lastPut.now < oneHour
       => /\ Truthy(lastGet.result)
          /\ ReportServed(lastGet) = ToJson(lastPut.report)
          /\ lastGet.after = lastGet.before
    /\ lastPut.done =>
           /\ lastPut.after = JSONstringify(Entry(lastPut.report, lastPut.now))
           /\ store[CacheKey(variant)] \in {lastPut.after, Absent}

\* the second widget's put replaced the first widget's entry, and a later
\* get by the first widget was served the report of the second widget's
\* sheet, which its own url never serves
C13_ServedTheOtherWidgetsReport ==
    /\ lastPut.done
    /\ lastPut.by = "w2"
    /\ IsEntry(lastPut.before)
    /\ lastGet.done
    /\ lastGet.by = "w1"
    /\ lastGet.before = lastPut.after
    /\ lastGet.now > lastPut.now
    /\ data["w1"] = ToJson(ReportOf(variant, Body2(variant)))
    /\ data["w1"] \notin {ToJson(ReportOf(variant, b)) : b \in SheetsAt(page["w1"], variant)}

(***************************************************************************)
(* Sections, coercion, tokenizer and totality (C14-C19), checked under     *)
(* SpecExtract.                                                            *)
(***************************************************************************)

\* a row whose cells are all empty
IsBlankRow(line) ==
    LET cells == parseCSVLine(line)
    IN  \A k \in 1..Len(cells) : cells[k] = <<>>

\* a row that opens a section of the sheet of lines 762-841
IsSentinelRow(line) == Cell(parseCSVLine(line), 0) = Str(<<"Section">>)

\* row i stands in the unbroken run of rows after the sentinel of the
\* cities section: no blank row and no sentinel lies between them
InCitiesRun(csv, i) ==
    \E j \in 1..(i - 1) :
        /\ csv[j] = CSectionCity
        /\ \A k \in (j + 1)..(i - 1) : ~IsBlankRow(csv[k]) /\ ~IsSentinelRow(csv[k])

\* C14: in the sheet of lines 762-841 the cities list holds no more entries
\* than there are 'CA Cities' rows in the unbroken runs of non-empty rows
\* that follow a 'Section,City' row.
C14_OnlyTheRunAfterTheSentinel ==
    exPc = "done" /\ exVariant = "C" =>
        LengthOf(exReport, "topCities") <=
            Cardinality({ i \in 1..Len(exCsv) :
                            /\ Cell(parseCSVLine(exCsv[i]), 0) = Str(<<"CA Cities">>)
                            /\ InCitiesRun(exCsv, i) })

\* row n of a text, counted from 1 as the fixed-position loops count
RowAt(csv, n) == IF n <= Len(csv) THEN csv[n] ELSE <<"no such row">>

\* C15: a total written as "1,234" in the cell a variant reads for
\* totalJobs is extracted as 1234 in every variant.
C15_ThousandsSeparatorsRemoved ==
    exPc = "done" =>
        /\ exVariant = "A" /\ RowAt(exCsv, 2) = LTotalB =>
               Get(Get(exReport, "summary"), "totalJobs") = Num(1234)
        /\ exVariant = "B" /\ Len(exCsv) > 4 /\ RowAt(exCsv, 3) = LTotalB =>
               Get(Get(exReport, "summary"), "totalJobs") = Num(1234)
        /\ exVariant = "C" /\ (\E i \in 1..Len(exCsv) : exCsv[i] = CTotal) =>
               Get(exReport, "totalJobs") = Num(1234)
        /\ exVariant = "D" /\ RowAt(exCsv, 3) = LTotalC =>
               Get(Get(exReport, "summary"), "totalJobs") = Num(1234)

\* C16: the sheet of part_000 whose line 3 holds "1,234" in column C and
\* whose line 10 holds "567" in column B is extracted with totalJobs 1234
\* and californiaJobs 567, whatever its other lines hold.
C16_StatedSheetGivesStatedSummary ==
    /\ exPc = "done"
    /\ exVariant = "D"
    /\ RowAt(exCsv, 3) \in Line3Total
    /\ RowAt(exCsv, 10) \in Line10California
    => /\ Get(Get(exReport, "summary"), "totalJobs") = Num(1234)
       /\ Get(Get(exReport, "summary"), "californiaJobs") = Num(567)

\* the stated sheet with a blank line before line 3 and other totals and a
\* malformed row between lines 3 and 10 was extracted
C16_BlankAndStrayLinesAround ==
    /\ exPc = "done"
    /\ exVariant = "D"
    /\ RowAt(exCsv, 1) = LBlank
    /\ RowAt(exCsv, 2) = LBlank
    /\ RowAt(exCsv, 3) \in Line3Total
    /\ RowAt(exCsv, 4) = LTotalC
    /\ RowAt(exCsv, 9) = LNegative
    /\ RowAt(exCsv, 10) \in Line10California
    /\ Get(Get(exReport, "summary"), "totalJobs") = Num(1234)
    /\ Get(Get(exReport, "summary"), "californiaJobs") = Num(567)

\* the commas of a line that have an even number of quotes before them
OutsideCommas(line) ==
    { i \in 1..Len(line) :
        /\ line[i] = ","
        /\ Cardinality({ j \in 1..(i - 1) : line[j] = "\"" }) % 2 = 0 }

\* the position of the k-th of them; 0 before the first and the end of the
\* line after the last
CommaAt(line, k) ==
    IF k = 0 THEN 0
    ELSE IF k > Cardinality(OutsideCommas(line)) THEN Len(line) + 1
    ELSE CHOOSE i \in OutsideCommas(line) :
             Cardinality({ j \in OutsideCommas(line) : j < i }) = k - 1

\* the text between the (k-1)-th and the k-th of them, without its quotes
\* and without the blanks around it
Between(line, k) ==
    LET piece == SubSeq(line, CommaAt(line, k - 1) + 1, CommaAt(line, k) - 1)
    IN  Trim(SelectSeq(piece, LAMBDA c : c # "\""))

\* C17: the tokenizer makes one cell more than the line has commas outside
\* quotes, the last cell included; each cell is the text between two such
\* commas, commas inside quotes kept, without quotes (and without the
\* blanks around it); the line "Acme, Inc." is the one cell Acme, Inc.
C17_SplitsAtCommasOutsideQuotes ==
    exPc = "done" =>
        \A n \in 1..Len(exCsv) :
            LET line == exCsv[n]
                cells == exCells[n]
            IN  /\ Len(cells) = Cardinality(OutsideCommas(line)) + 1
                /\ \A k \in 1..Len(cells) :
                       /\ cells[k] = Between(line, k)
                       /\ \A i \in 1..Len(cells[k]) : cells[k][i] # "\""
                /\ line = LAcme => cells = << <<"Acme", ",", " ", "Inc.">> >>

\* a line with a quoted cell holding a comma, followed by another cell, was
\* split in two at the comma outside the quotes
C17_QuotedCommaKept ==
    /\ exPc = "done"
    /\ exCsv = << JoinCells(<< LAcme, N12 >>) >>
    /\ exCells = << << <<"Acme", ",", " ", "Inc.">>, N12 >> >>

\* C18: whatever the text, the extractor returns a report: an object whose
\* lists are arrays and, in the fixed-position classes, whose summary is an
\* object; no exception ends the extraction.
C18_ExtractorReturnsAReport ==
    exPc = "done" =>
        /\ exReport.t = "obj"
        /\ \A list \in RankedLists(exVariant) : Get(exReport, list[1]).t = "arr"
        /\ exVariant # "C" => Get(exReport, "summary").t = "obj"

\* part_000 returned a report for a text that ends before row 10 and whose
\* row 3 has a single cell
C18_TruncatedAndShortOfCells ==
    /\ exPc = "done"
    /\ exVariant = "D"
    /\ Len(exCsv) < 10
    /\ RowAt(exCsv, 3) = LOneCell
    /\ exReport.t = "obj"
    /\ Get(exReport, "summary") = EmptyObj

\* C30: every line is split into one cell more than it has commas outside
\* quotes, so into at least one cell, an empty line into one empty cell;
\* and equal lines are split equally wherever they stand, whatever quotes
\* the lines before them leave open.
C30_OneMoreCellThanCommasOnEveryLine ==
    exPc = "done" =>
        \A n \in 1..Len(exCsv) :
            /\ Len(exCells[n]) >= 1
            /\ Len(exCells[n]) = Cardinality(OutsideCommas(exCsv[n])) + 1
            /\ exCsv[n] = <<>> => exCells[n] = << <<>> >>
            /\ \A m \in 1..Len(exCsv) : exCsv[m] = exCsv[n] => exCells[m] = exCells[n]

\* a line holding one quote was followed by a line holding one comma,
\* which was split in two empty cells
C30_OpenQuoteDoesNotReachNextLine ==
    /\ exPc = "done"
    /\ exCsv = << <<"\"">>, <<",">> >>
    /\ exCells = << << <<>> >>, << <<>>, <<>> >> >>

(***************************************************************************)
(* One line replaced by a malformed one (C19), checked under SpecReplace.  *)
(***************************************************************************)

\* the summary field or the list a row of a fixed-position sheet is read for
AddressedBy(v, row) ==
    IF v = "A"
    THEN CASE row = 2 -> "totalJobs"
           [] row = 7 -> "californiaJobs"
           [] row \in 13..22 -> "jobTitles"
           [] row \in 25..29 -> "companies"
           [] OTHER -> "nothing"
    ELSE CASE row = 3 -> "totalJobs"
           [] row = 10 -> "californiaJobs"
           [] row \in 18..27 -> "cities"
           [] row \in 53..62 -> "jobTitles"
           [] row \in 67..76 -> "companies"
           [] OTHER -> "nothing"

\* two lists are the same but for at most one entry, at the same place,
\* that is missing from one of them or differs
SameButOneEntry(b, a) ==
    \E p \in 0..Len(b) : \E x \in 0..1, y \in 0..1 :
        /\ p + x <= Len(b)
        /\ Len(a) = Len(b) - x + y
        /\ SubSeq(a, 1, p) = SubSeq(b, 1, p)
        /\ SubSeq(a, p + y + 1, Len(a)) = SubSeq(b, p + x + 1, Len(b))

\* C19: after one line of a fixed-position sheet is replaced by a malformed
\* one, every summary field and every list the line is not read for is as
\* it was before, and the list it is read for is as before but for at most
\* the one entry of that line.
C19_OnlyTheAddressedFieldChanges ==
    exPc = "replaced" =>
        /\ \A field \in {"totalJobs", "californiaJobs"} :
               field # AddressedBy(exVariant, exRow) =>
                   Get(Get(exReport, "summary"), field)
                       = Get(Get(exBefore, "summary"), field)
        /\ DOMAIN Get(exReport, "summary").o \subseteq {"totalJobs", "californiaJobs"}
        /\ \A list \in RankedLists(exVariant) :
               IF list[1] # AddressedBy(exVariant, exRow)
               THEN Get(exReport, list[1]) = Get(exBefore, list[1])
               ELSE SameButOneEntry(Get(exBefore, list[1]).a, Get(exReport, list[1]).a)
        /\ DOMAIN exReport.o = DOMAIN exBefore.o

\* a city row of part_000 was replaced by a row without a count: its entry
\* is gone from the cities, and the totals and the other lists are as before
C19_CityRowLostOthersKept ==
    /\ exPc = "replaced"
    /\ exVariant = "D"
    /\ exRow = 19
    /\ exCsv[19] = LOneCell
    /\ LengthOf(exReport, "cities") = LengthOf(exBefore, "cities") - 1
    /\ LengthOf(exReport, "cities") > 0
    /\ LengthOf(exReport, "jobTitles") > 0
    /\ Get(Get(exReport, "summary"), "totalJobs") = Num(1234)
    /\ Get(Get(exReport, "summary"), "californiaJobs") = Num(567)

(***************************************************************************)
(* The page load, the refresh timer and overlapping loads (C21, C24-C27),  *)
(* checked under Spec.                                                     *)
(***************************************************************************)

\* C21: once a widget has been constructed a fetch has been issued, and the
\* widget's latest load was not served from the cache before any fetch.
C21_PageLoadFetches ==
    \A w \in DOMAIN page :
        display[w] # Empty =>
            /\ started >= 1
            /\ outcome[w].transport = "cache" => lastPut.done

\* C24: no exception leaves init or a timer callback, and a widget shows
\* the loading state only while one of its loads is in flight.
C24_LoadingEndsWithTheLoad ==
    /\ ~uncaught
    /\ \A w \in DOMAIN page :
           display[w] = Loading => \E l \in loads : l.w = w

\* C25: a widget's timer is installed only if refreshInterval is set and,
\* where init awaits the first load, only once that load has settled; every
\* load in flight that a timer started belongs to a widget whose timer is
\* installed; without refreshInterval no fetch follows the first.
C25_TimerOnlyWhenConfigured ==
    /\ \A w \in Widgets :
           /\ timerOn[w] => refresh
           /\ timerOn[w] /\ Cached(variant) =>
                  /\ outcome[w] # NoOutcome
                  /\ \A l \in loads : l.w = w => l.origin = "timer"
    /\ \A l \in loads : l.origin = "timer" => refresh /\ timerOn[l.w]
    /\ ~refresh => started <= 1

\* without refreshInterval a widget showed its report, time passed, and
\* the fetch of the page load is still the only one
C25_NoRefreshWithoutInterval ==
    /\ ~refresh
    /\ display["w1"].kind = "report"
    /\ ~timerOn["w1"]
    /\ ticks = MaxTicks
    /\ started = 1
    /\ loads = {}

\* C26: in the classes whose init and timer callback render after the
\* load, a load whose fetch is rejected leaves every widget's data and the
\* slot as they were, and if its widget held a report the container shows
\* that report afterwards, not the error message.
C26_FailedLoadKeepsTheReport ==
    [][ \A l \in loads :
            Cached(variant) /\ FetchReject(l) =>
                /\ data' = data
                /\ store' = store
                /\ Truthy(data[l.w]) /\ ~RenderThrows(variant, data[l.w]) =>
                       display'[l.w] = Rendered(data[l.w])
      ]_vars

\* a widget's first load put a report, the fetch of its second load was
\* rejected, and the container shows the report of the first
C26_ReportShownAfterRejectedRefresh ==
    /\ Cached(variant)
    /\ outcome["w1"].transport = "rejected"
    /\ started = 2
    /\ loads = {}
    /\ lastPut.done
    /\ data["w1"] = lastPut.report
    /\ display["w1"] = Rendered(lastPut.report)

\* the bodies that arrived for a widget's loads, in the order of arrival
ArrivedFor(w) == SelectSeq(settled, LAMBDA e : e.w = w)

\* C27: when the latest event of a widget was the arrival of a body, its
\* data is the report of the body that arrived last, whatever the order in
\* which the requests were issued; and where the storage works the latest
\* put holds the report of the body that arrived last.
C27_LastArrivalWins ==
    /\ \A w \in Widgets :
           outcome[w].extracted =>
               /\ ArrivedFor(w) # <<>>
               /\ data[w] = ReportOf(variant, ArrivedFor(w)[Len(ArrivedFor(w))].body)
    /\ settled # <<>> /\ Cached(variant) /\ ~setThrows =>
           /\ lastPut.done
           /\ lastPut.report = ReportOf(variant, settled[Len(settled)].body)
           /\ lastPut.after = JSONstringify(Entry(lastPut.report, lastPut.now))

\* the second request of a widget was answered before the first, with
\* another sheet: data and the slot hold the report of the first request
C27_OlderResponseOverwroteNewer ==
    /\ Len(settled) = 2
    /\ settled[1].id = 2
    /\ settled[2].id = 1
    /\ settled[1].w = settled[2].w
    /\ ReportOf(variant, settled[1].body) # ReportOf(variant, settled[2].body)
    /\ data[settled[2].w] = ReportOf(variant, settled[2].body)
    /\ Cached(variant)
    /\ store[CacheKey(variant)] = JSONstringify(Entry(data[settled[2].w], clock))

\* C29: a get on an entry stamped later than the clock returns it and
\* leaves the slot alone; an entry stamped later than the page load is
\* returned by exactly the gets made before its stamp plus one hour.
C29_FutureEntryServedUntilItsHourEnds ==
    lastGet.done /\ IsEntry(lastGet.before) =>
        /\ AgeAt(lastGet) < 0 =>
               /\ lastGet.result = Served(lastGet)
               /\ lastGet.after = lastGet.before
        /\ lastGet.before.value.o.timestamp.n > StartTime /\ ~lastPut.done =>
               (Truthy(lastGet.result)
                    <=> lastGet.now < lastGet.before.value.o.timestamp.n + oneHour)

\* an entry from the future was served, and later served again at a
\* positive age
C29_ServedBeforeAndAfterItsStamp ==
    /\ lastGet.done
    /\ IsEntry(lastGet.before)
    /\ lastGet.before.value.o.timestamp.n = StartTime + SetBack
    /\ AgeAt(lastGet) > 0
    /\ Truthy(lastGet.result)
    /\ store[CacheKey(variant)] = lastGet.before
    /\ started = 0

(***************************************************************************)
(* The show options and the header row (C22, C28), checked under           *)
(* SpecExtract.                                                            *)
(***************************************************************************)

\* C22: in the classes that take showLocations and showCompanies, the
\* companies list is no longer than showCompanies and the locations list
\* no longer than showLocations.
C22_ShowOptionsCapTheLists ==
    exPc = "done" /\ exVariant \in {"A", "E"} =>
        /\ LengthOf(exReport, "companies") <= exOptions.showCompanies
        /\ exVariant = "E" =>
               LengthOf(exReport, "locations") <= exOptions.showLocations

\* a title line of part_001 after which the header row is passed over
OpensList(rawLine) ==
    /\ Trim(rawLine) # <<>>
    /\ ~Includes(Trim(rawLine), "MARITIME JOB MARKET SUMMARY")
    /\ \/ Includes(Trim(rawLine), "JOB DISTRIBUTION BY LOCATION")
       \/ Includes(Trim(rawLine), "TOP SKILLS")
       \/ Includes(Trim(rawLine), "HIRING COMPANIES")

\* line i is the line right after a title line that was itself read
RECURSIVE IsHeaderRow(_, _)
IsHeaderRow(csv, i) ==
    i > 1 /\ OpensList(csv[i - 1]) /\ ~IsHeaderRow(csv, i - 1)

\* the text with every such line emptied
WithoutHeaderRows(csv) ==
    [i \in 1..Len(csv) |-> IF IsHeaderRow(csv, i) THEN LBlank ELSE csv[i]]

\* C28: in part_001 the line after a locations, skills or companies title
\* has no effect on the report: the report is the one of the text in which
\* that line is empty, be it a data row, a blank line or another title.
C28_HeaderRowIsPassedOver ==
    exPc = "done" /\ exVariant = "E" =>
        exReport = Extract("E", exOptions, WithoutHeaderRows(exCsv))

\* a companies title right after a locations title was passed over as the
\* header row: the row after it went to the locations, none to the companies
C28_TitleTakenAsHeaderRow ==
    /\ exPc = "done"
    /\ exVariant = "E"
    /\ exCsv = <<ETitleLocations, ETitleCompanies, LCalifornia>>
    /\ LengthOf(exReport, "locations") = 1
    /\ LengthOf(exReport, "companies") = 0

(***************************************************************************)
(* The same text extracted twice (C23), checked under SpecTwice.           *)
(***************************************************************************)

====
